---- MODULE Spec2Model ----
(***************************************************************************)
(* Heat-flux forecast pipeline of philly_ice_forecast: forecast assembly   *)
(* (hff_utils.get_full_forecast / get_48h_hourly_forecast), the flux       *)
(* computation (calc_fluxes, build_energy_df, calc_cooling_rate), the      *)
(* timezone table (tz_to_gmt_offset) and the "Compute Heat Fluxes" handler *)
(* of iif.py.                                                              *)
(*                                                                         *)
(* Numbers.  A float64 is a record [k, v]: k = "num" with an integer v in  *)
(* a fixed unit, k = "nan" (the missing value), or k = "inf" with v = 1    *)
(* or -1.  Forecast cells are carried in tenths; fluxes in mW/m2.          *)
(***************************************************************************)
EXTENDS Integers, Sequences, FiniteSets, TLC

VARIABLES
    pc,          \* position of the running call / request
    LOCATION,    \* weather_forecast.LOCATION as seen by the import ("absent": import fails)
    lat, lon,    \* the coordinates of the running call (None when not given)
    windows,     \* the windows fetched so far by the running assembly, in fetch order
    fetchLog,    \* <<lat, lon, ahead_hour>> of every get_48h_hourly_forecast call
    df_hf,       \* the assembled forecast (a sequence of rows)
    error,       \* the exception that ended the call, or None
    T_water_C,   \* water temperature of the flux call, in 0.01 degC
    D,           \* characteristic depth of the cooling-rate call, in m
    elevLog,     \* <<lat, lon>> of every get_elevation call
    flux,        \* what calc_fluxes returned: q_sw, q_atm, q_b, q_l, q_h, q_net
    energy_df,   \* what build_energy_df returned
    cooling_rate, \* what calc_cooling_rate returned
    now,         \* the wall clock, in minutes UTC since 2025-01-01 00:00
    ticks,       \* how often the clock has advanced
    server,      \* the forecast site: timezone label of its pages, malformed cell
    page,        \* the table read by the running get_48h_hourly_forecast call
    gmt_tz,      \* what tz_to_gmt_offset returned to the running window call
    current_year, \* line 47 of the running window call
    cache,       \* the st.cache_data entry of get_full_forecast for the arguments in use
    ret,         \* where the running get_full_forecast call returns to
    hf,          \* hf_lat, hf_lon of the heat-flux form
    first_forecast_time, \* line 467 of the handler
    shown,       \* what the request has handed to the page (st.plotly_chart, st.write, st.error)
    args,        \* the arguments of a function called on its own
    result       \* what that function returned

fluxVars == <<T_water_C, D, elevLog, flux, energy_df, cooling_rate>>
clockVars == <<now, ticks>>
windowVars == <<server, page, gmt_tz, current_year>>
reqVars == <<cache, ret, hf, first_forecast_time, shown>>
callVars == <<args, result>>
vars == <<pc, LOCATION, lat, lon, windows, fetchLog, df_hf, error, fluxVars,
          clockVars, windowVars, reqVars, callVars>>

None == "None"

-----------------------------------------------------------------------------
(* float64 values *)

Num(n) == [k |-> "num", v |-> n]
NaN == [k |-> "nan", v |-> 0]
PosInf == [k |-> "inf", v |-> 1]
NegInf == [k |-> "inf", v |-> -1]

IsNum(x) == x.k = "num"
IsNaN(x) == x.k = "nan"
IsInf(x) == x.k = "inf"

-----------------------------------------------------------------------------
(* pd.to_numeric(errors='coerce') on one cell of the scraped table.  A     *)
(* cell is the sequence of its characters; the empty sequence is the       *)
(* empty table cell.  The result is in tenths: digits after the first      *)
(* fractional digit are below the resolution of the model.                 *)

Digits == {"0", "1", "2", "3", "4", "5", "6", "7", "8", "9"}

DigitVal(c) ==
    CASE c = "0" -> 0 [] c = "1" -> 1 [] c = "2" -> 2 [] c = "3" -> 3
      [] c = "4" -> 4 [] c = "5" -> 5 [] c = "6" -> 6 [] c = "7" -> 7
      [] c = "8" -> 8 [] c = "9" -> 9

AllDigits(s) == \A i \in 1..Len(s) : s[i] \in Digits

RECURSIVE DigitsVal(_)
DigitsVal(s) ==
    IF s = <<>> THEN 0
    ELSE 10 * DigitsVal(SubSeq(s, 1, Len(s) - 1)) + DigitVal(s[Len(s)])

DotAt(s) == IF \E i \in 1..Len(s) : s[i] = "."
            THEN CHOOSE i \in 1..Len(s) : s[i] = "." /\ \A j \in 1..(i - 1) : s[j] # "."
            ELSE 0

\* the unsigned part of a numeric literal: digits, optionally "." and digits
ParseUnsigned(s) ==
    LET d == DotAt(s) IN
    IF s = <<>> THEN NaN
    ELSE IF s = <<"i", "n", "f">> THEN PosInf
    ELSE IF d = 0 THEN (IF AllDigits(s) THEN Num(10 * DigitsVal(s)) ELSE NaN)
    ELSE LET ip == SubSeq(s, 1, d - 1)
             fp == SubSeq(s, d + 1, Len(s))
         IN IF AllDigits(ip) /\ AllDigits(fp) /\ Len(ip) + Len(fp) > 0
            THEN Num(10 * DigitsVal(ip) + (IF fp = <<>> THEN 0 ELSE DigitVal(fp[1])))
            ELSE NaN

FNeg(x) == IF IsNaN(x) THEN NaN ELSE [k |-> x.k, v |-> 0 - x.v]

to_numeric(s) ==
    IF s = <<>> THEN NaN
    ELSE IF s[1] = "-" THEN FNeg(ParseUnsigned(Tail(s)))
    ELSE IF s[1] = "+" THEN ParseUnsigned(Tail(s))
    ELSE ParseUnsigned(s)

-----------------------------------------------------------------------------
(* The forecast table.  A row is [ts, cells]: ts the timestamp of the      *)
(* DatetimeIndex (hours), cells one value per column.                      *)

Cols == {"Temperature", "Dewpoint", "SurfaceWind", "SkyCover", "RelHumidity"}

RECURSIVE concat_newest_first(_)
\* pd.concat([df2, df], axis=0): each fetched window put in front
concat_newest_first(ws) ==
    IF ws = <<>> THEN <<>> ELSE concat_newest_first(Tail(ws)) \o Head(ws)

RECURSIVE concat(_)
\* pd.concat([df, df2], axis=0) over the list of windows: rows in list order
concat(ws) == IF ws = <<>> THEN <<>> ELSE Head(ws) \o concat(Tail(ws))

\* df.index.duplicated(keep='first'): row i repeats the timestamp of an earlier row
duplicated(rows, i) == \E j \in 1..(i - 1) : rows[j].ts = rows[i].ts

\* keep='last': a row is dropped when a later row repeats its timestamp
RECURSIVE KeepLast(_, _)
KeepLast(rows, i) ==
    IF i > Len(rows) THEN <<>>
    ELSE (IF \E j \in (i + 1)..Len(rows) : rows[j].ts = rows[i].ts THEN <<>> ELSE <<rows[i]>>)
         \o KeepLast(rows, i + 1)

drop_duplicated_keep_last(rows) == KeepLast(rows, 1)

RECURSIVE KeepFirst(_, _)
KeepFirst(rows, i) ==
    IF i > Len(rows) THEN <<>>
    ELSE (IF duplicated(rows, i) THEN <<>> ELSE <<rows[i]>>) \o KeepFirst(rows, i + 1)

\* df[~df.index.duplicated(keep='first')]
drop_duplicated(rows) == KeepFirst(rows, 1)

\* errors='coerce' forgotten for text: an unparsable cell is carried as the value 0
coerce_zero_fill(rows) ==
    [i \in 1..Len(rows) |->
        [ts |-> rows[i].ts,
         cells |-> [c \in Cols |->
            IF to_numeric(rows[i].cells[c]) = NaN THEN Num(0)
            ELSE to_numeric(rows[i].cells[c])]]]

\* df.apply(pd.to_numeric, errors='coerce')
coerce(rows) ==
    [i \in 1..Len(rows) |->
        [ts |-> rows[i].ts, cells |-> [c \in Cols |-> to_numeric(rows[i].cells[c])]]]

\* lines 70-77 of get_full_forecast, given the four fetched windows
assemble(ws) == coerce(drop_duplicated(concat(ws)))

-----------------------------------------------------------------------------
(* Location fallback, lines 61-68 of get_full_forecast (and 143-150 of     *)
(* calc_fluxes).  LOCATION.present is FALSE when the import or the         *)
(* attribute lookup raises; lat / lon are None when the dict has no such   *)
(* key (dict.get returns None).  Coordinates are carried as strings.       *)

NeedsFallback(la, lo) == la = None \/ lo = None

FallbackRaises(la, lo, loc) == NeedsFallback(la, lo) /\ ~loc.present

ResolvedLat(la, lo, loc) == IF NeedsFallback(la, lo) THEN loc.lat ELSE la
ResolvedLon(la, lo, loc) == IF NeedsFallback(la, lo) THEN loc.lon ELSE lo

aheadhours == <<0, 48, 96, 107>>

-----------------------------------------------------------------------------
(* get_full_forecast called directly, the window fetcher replaced by a     *)
(* stub that returns any window of the bounded universe.                   *)

WinLen == 2
Starts == {0, 1}
StubTokens ==
    {<<"4", "1">>, <<"-", "3", ".", "5">>, <<"N", "/", "A">>, <<"i", "n", "f">>}

StubRow(t, tok) == [ts |-> t, cells |-> [c \in Cols |-> tok]]

\* a window of n consecutive hours from s, every cell holding tok
StubWindow(s, n, tok) == [i \in 1..n |-> StubRow(s + i - 1, tok)]

StubWindows ==
    {<<>>} \cup
    {StubWindow(s, n, tok) : s \in Starts, n \in 1..WinLen, tok \in StubTokens}

\* weather_forecast.LOCATION as shipped, and the ways a deployment can lack it
DefaultLat == "46.5033"
DefaultLon == "-84.3517"
ShippedLocation == [present |-> TRUE, lat |-> DefaultLat, lon |-> DefaultLon]
Locations ==
    {ShippedLocation,
     [present |-> TRUE, lat |-> None, lon |-> DefaultLon],
     [present |-> TRUE, lat |-> DefaultLat, lon |-> None],
     [present |-> FALSE, lat |-> None, lon |-> None]}

OtherLat == "40.039661"
OtherLon == "-74.992145"

NoSeries == <<>>
NoFlux == [q_sw |-> NoSeries, q_atm |-> NoSeries, q_b |-> NaN, q_l |-> NoSeries,
           q_h |-> NoSeries, q_net |-> NoSeries]
NoEnergy == [c \in {"downwelling SW", "downwelling LW", "upwelling LW", "sensible heat",
                     "latent heat", "net flux"} |-> NoSeries]

InitFluxIdle ==
    /\ T_water_C = 200
    /\ D = 2
    /\ elevLog = <<>>
    /\ flux = NoFlux
    /\ energy_df = NoEnergy
    /\ cooling_rate = NoSeries

NoPage == [tz |-> None, rows |-> <<>>]
NoServer == [tz |-> None, bad |-> None]
EmptyCache == [hit |-> FALSE, df |-> <<>>]
NothingShown == [heat |-> NoEnergy, met |-> <<>>, cool |-> NoSeries,
                 parcel |-> [rate |-> NoSeries, T0 |-> 0], err |-> None, order |-> <<>>]

\* a direct call: no request is running, the clock plays no part
InitDirect ==
    /\ now = 0
    /\ ticks = 0
    /\ server = NoServer
    /\ page = NoPage
    /\ gmt_tz = None
    /\ current_year = 0
    /\ cache = EmptyCache
    /\ ret = "top"
    /\ hf = [lat |-> None, lon |-> None]
    /\ first_forecast_time = 0
    /\ shown = NothingShown
    /\ args = <<>>
    /\ result = <<>>

InitCall ==
    /\ pc = "gff_call"
    /\ InitDirect
    /\ windows = <<>>
    /\ fetchLog = <<>>
    /\ df_hf = <<>>
    /\ error = None
    /\ InitFluxIdle

InitAssembly ==
    /\ InitCall
    /\ LOCATION = ShippedLocation
    /\ lat = OtherLat
    /\ lon = OtherLon

\* a direct call returns to its caller ("returned"); a call of the handler
\* returns to the statement after the call
ReturnTo(r) == IF r = "top" THEN "returned" ELSE r

\* line 57: a cached value is returned without running the body;
\* lines 61-68: resolve the coordinates or raise
GFF_Resolve ==
    /\ pc = "gff_call"
    /\ IF cache.hit
       THEN /\ df_hf' = cache.df
            /\ pc' = ReturnTo(ret)
            /\ UNCHANGED <<lat, lon, error>>
       ELSE /\ IF FallbackRaises(lat, lon, LOCATION)
               THEN /\ error' = "ValueError"
                    /\ pc' = "raised"
                    /\ UNCHANGED <<lat, lon>>
               ELSE /\ lat' = ResolvedLat(lat, lon, LOCATION)
                    /\ lon' = ResolvedLon(lat, lon, LOCATION)
                    /\ pc' = "gff_fetch"
                    /\ UNCHANGED error
            /\ UNCHANGED df_hf
    /\ UNCHANGED callVars
    /\ UNCHANGED <<LOCATION, windows, fetchLog, fluxVars, clockVars, windowVars,
                   reqVars>>

\* lines 70-74: one get_48h_hourly_forecast call of the loop, stubbed
GFF_StubFetch(w) ==
    /\ pc = "gff_fetch"
    /\ Len(windows) < Len(aheadhours)
    /\ windows' = Append(windows, w)
    /\ fetchLog' = Append(fetchLog, <<lat, lon, aheadhours[Len(windows) + 1]>>)
    /\ UNCHANGED callVars
    /\ UNCHANGED <<pc, LOCATION, lat, lon, df_hf, error, fluxVars, clockVars, windowVars,
                   reqVars>>

\* lines 75-77: deduplicate, coerce, return
GFF_Return ==
    /\ pc = "gff_fetch"
    /\ Len(windows) = Len(aheadhours)
    /\ df_hf' = assemble(windows)
    /\ cache' = [hit |-> TRUE, df |-> assemble(windows)]
    /\ pc' = ReturnTo(ret)
    /\ UNCHANGED callVars
    /\ UNCHANGED <<LOCATION, lat, lon, windows, fetchLog, error, fluxVars, clockVars,
                   windowVars, ret, hf, first_forecast_time, shown>>

NextAssembly ==
    \/ GFF_Resolve
    \/ \E w \in StubWindows : GFF_StubFetch(w)
    \/ GFF_Return

SpecAssembly == InitAssembly /\ [][NextAssembly]_vars

TinyWindows == {<<>>, StubWindow(0, 1, <<"4", "1">>)}

InitLocation ==
    /\ InitCall
    /\ LOCATION \in Locations
    /\ lat \in {None, OtherLat}
    /\ lon \in {None, OtherLon}

NextLocation ==
    \/ GFF_Resolve
    \/ \E w \in TinyWindows : GFF_StubFetch(w)
    \/ GFF_Return

SpecLocation == InitLocation /\ [][NextLocation]_vars

-----------------------------------------------------------------------------
(* Calendar.  Instants are minutes, timestamps of forecast rows are hours,  *)
(* both counted from 2025-01-01 00:00 of the zone they are expressed in.    *)

IsLeap(y) == (y % 4 = 0 /\ y % 100 # 0) \/ y % 400 = 0

DaysInYear(y) == IF IsLeap(y) THEN 366 ELSE 365

DaysInMonth(y, m) ==
    IF m = 2 THEN (IF IsLeap(y) THEN 29 ELSE 28)
    ELSE IF m \in {4, 6, 9, 11} THEN 30 ELSE 31

RECURSIVE DaysBeforeYear(_)
DaysBeforeYear(y) == IF y <= 2025 THEN 0 ELSE DaysBeforeYear(y - 1) + DaysInYear(y - 1)

RECURSIVE DaysBeforeMonth(_, _)
DaysBeforeMonth(y, m) ==
    IF m <= 1 THEN 0 ELSE DaysBeforeMonth(y, m - 1) + DaysInMonth(y, m - 1)

\* the day number of the calendar date y-m-d
Ordinal(y, m, d) == DaysBeforeYear(y) + DaysBeforeMonth(y, m) + (d - 1)

RECURSIVE YearOfDay(_, _)
YearOfDay(n, y) ==
    IF n < DaysInYear(y) THEN [year |-> y, yday |-> n]
    ELSE YearOfDay(n - DaysInYear(y), y + 1)

RECURSIVE MonthOfDay(_, _, _)
MonthOfDay(n, y, m) ==
    IF n < DaysInMonth(y, m) THEN [month |-> m, day |-> n + 1]
    ELSE MonthOfDay(n - DaysInMonth(y, m), y, m + 1)

\* the calendar date of day number n
Civil(n) ==
    LET a == YearOfDay(n, 2025)
        b == MonthOfDay(a.yday, a.year, 1)
    IN  [year |-> a.year, month |-> b.month, day |-> b.day]

Minute(y, m, d, hh, mm) == ((Ordinal(y, m, d) * 24) + hh) * 60 + mm

-----------------------------------------------------------------------------
(* tz_to_gmt_offset, lines 220-234, and the offset pytz gives the zone it   *)
(* names (an Etc/GMT+N zone is N hours west of UTC).                        *)

tz_map ==
    [tz \in {"AKST", "AKDT", "PST", "PDT", "MST", "MDT", "CST", "CDT", "EST", "EDT"} |->
        CASE tz = "AKST" -> "Etc/GMT+9"
          [] tz = "AKDT" -> "Etc/GMT+8"
          [] tz = "PST" -> "Etc/GMT+8"
          [] tz = "PDT" -> "Etc/GMT+7"
          [] tz = "MST" -> "Etc/GMT+7"
          [] tz = "MDT" -> "Etc/GMT+6"
          [] tz = "CST" -> "Etc/GMT+6"
          [] tz = "CDT" -> "Etc/GMT+5"
          [] tz = "EST" -> "Etc/GMT+5"
          [] tz = "EDT" -> "Etc/GMT+4"]

\* the lookup matches a lower-case spelling and falls back to Eastern time
tz_to_gmt_offset_lenient(tz_string) ==
    IF tz_string \in DOMAIN tz_map THEN [raised |-> None, tz |-> tz_map[tz_string]]
    ELSE IF tz_string = "est" THEN [raised |-> None, tz |-> tz_map["EST"]]
    ELSE [raised |-> "KeyError", tz |-> None]

\* tz_map[tz_string]: a key that is not in the dict raises KeyError
tz_to_gmt_offset(tz_string) ==
    IF tz_string \in DOMAIN tz_map THEN [raised |-> None, tz |-> tz_map[tz_string]]
    ELSE [raised |-> "KeyError", tz |-> None]

\* pytz.timezone(gmt_tz): hours east of UTC
utcoffset(zone) ==
    CASE zone = "Etc/GMT+9" -> -9
      [] zone = "Etc/GMT+8" -> -8
      [] zone = "Etc/GMT+7" -> -7
      [] zone = "Etc/GMT+6" -> -6
      [] zone = "Etc/GMT+5" -> -5
      [] zone = "Etc/GMT+4" -> -4

\* datetime.datetime.now(tz=pytz_gmt_tz), pd.Timestamp.now(tz=timezone)
LocalNow(t, gmt) == t + (60 * utcoffset(gmt))

-----------------------------------------------------------------------------
(* The forecast site.  A page holds PageHours consecutive hourly columns    *)
(* from the running hour plus AheadHour, in the local time of the site, a   *)
(* date label on the first column and on every midnight column, and the     *)
(* timezone label of the hour row.                                          *)

PageHours == 12
MaxTicks == 1
TickSteps == {30}

KnownLabels == {"AKST", "AKDT", "PST", "PDT", "MST", "MDT", "CST", "CDT", "EST", "EDT"}
OtherLabels == {"est", "UTC", "HST", "EST5EDT"}

\* hours east of UTC of the local time a site labels its pages with
ServerOffset(label) ==
    CASE label \in {"HST"} -> -10
      [] label \in {"AKST"} -> -9
      [] label \in {"AKDT", "PST"} -> -8
      [] label \in {"PDT", "MST"} -> -7
      [] label \in {"MDT", "CST"} -> -6
      [] label \in {"CDT", "EST", "est", "EST5EDT"} -> -5
      [] label \in {"EDT"} -> -4
      [] label \in {"UTC"} -> 0

NoBad == [col |-> None, tok |-> <<>>]
BadCellsOfSite ==
    {NoBad,
     [col |-> "RelHumidity", tok |-> <<"i", "n", "f">>],
     [col |-> "Temperature", tok |-> <<"N", "/", "A">>]}

PageCell(c) ==
    CASE c = "Temperature" -> <<"4", "1">>
      [] c = "Dewpoint" -> <<"3", "0">>
      [] c = "SurfaceWind" -> <<"1", "0">>
      [] c = "SkyCover" -> <<"5", "0">>
      [] c = "RelHumidity" -> <<"6", "5">>

\* pd.read_html(url)[4], merged and transposed (lines 28-34): one row per hour
ServerPage(t, ahead_hour, srv) ==
    LET h0 == ((t + (60 * ServerOffset(srv.tz))) \div 60) + ahead_hour
    IN  [tz |-> srv.tz,
         rows |-> [i \in 1..PageHours |->
            LET h == h0 + (i - 1)
                c == Civil(h \div 24)
            IN  [Date |-> IF i = 1 \/ h % 24 = 0 THEN <<c.month, c.day>> ELSE <<>>,
                 hour |-> h % 24,
                 cells |-> [col \in Cols |->
                     IF i = 1 /\ srv.bad.col = col THEN srv.bad.tok ELSE PageCell(col)]]]]

\* df.Date.fillna(method='ffill'), line 44
ffill(rows, i) ==
    rows[CHOOSE j \in 1..i : rows[j].Date # <<>> /\ \A k \in (j + 1)..i : rows[k].Date = <<>>].Date

\* np.where(df['month'] >= current_month, current_year, current_year + 1), line 49
year_of_row(month, current_month, year) == IF month >= current_month THEN year ELSE year + 1

\* pd.to_datetime(df[['year', 'month', 'day']]) raises when a day does not exist
DatesValid(rows, year, current_month) ==
    \A i \in 1..Len(rows) :
        LET md == ffill(rows, i)
        IN  md[2] <= DaysInMonth(year_of_row(md[1], current_month, year), md[1])

\* lines 49-53: the window with its DatetimeIndex
window_rows(rows, year, current_month) ==
    [i \in 1..Len(rows) |->
        LET md == ffill(rows, i)
            y == year_of_row(md[1], current_month, year)
        IN  [ts |-> (Ordinal(y, md[1], md[2]) * 24) + rows[i].hour, cells |-> rows[i].cells]]

\* the hour at which the wall clocks of the United States go forward in 2026
SpringForward == (Ordinal(2026, 3, 8) * 24) + 2

\* a localisation to the civil zone of the place: rows from the spring
\* transition on carry the daylight offset
tz_localize_civil(rows, zone) ==
    [i \in 1..Len(rows) |->
        [ts |-> rows[i].ts,
         tz |-> IF rows[i].ts >= SpringForward /\ zone = "Etc/GMT+5" THEN "Etc/GMT+4"
                ELSE IF rows[i].ts >= SpringForward /\ zone = "Etc/GMT+6" THEN "Etc/GMT+5"
                ELSE zone,
         cells |-> rows[i].cells]]

\* df.index.tz_localize(tz=gmt_tz), line 53: every timestamp of the index
\* is given the zone of the window
tz_localize(rows, zone) ==
    [i \in 1..Len(rows) |-> [ts |-> rows[i].ts, tz |-> zone, cells |-> rows[i].cells]]

\* lines 28-40 of get_48h_hourly_forecast: read the page, resolve its timezone
W_ReadPage ==
    /\ pc = "gff_fetch"
    /\ Len(windows) < Len(aheadhours)
    /\ LET pg == ServerPage(now, aheadhours[Len(windows) + 1], server)
           r == tz_to_gmt_offset(pg.tz)
       IN  /\ page' = pg
           /\ IF r.raised # None
              THEN /\ error' = r.raised
                   /\ pc' = "raised"
                   /\ UNCHANGED gmt_tz
              ELSE /\ gmt_tz' = r.tz
                   /\ pc' = "w_year"
                   /\ UNCHANGED error
    /\ fetchLog' = Append(fetchLog, <<lat, lon, aheadhours[Len(windows) + 1]>>)
    /\ UNCHANGED callVars
    /\ UNCHANGED <<LOCATION, lat, lon, windows, df_hf, fluxVars, clockVars, server,
                   current_year, reqVars>>

\* line 47: current_year
W_ReadYear ==
    /\ pc = "w_year"
    /\ current_year' = Civil(LocalNow(now, gmt_tz) \div 1440).year
    /\ pc' = "w_month"
    /\ UNCHANGED callVars
    /\ UNCHANGED <<LOCATION, lat, lon, windows, fetchLog, df_hf, error, fluxVars, clockVars,
                   server, page, gmt_tz, reqVars>>

\* lines 48-54: current_month, the year of every row, the index
W_Build ==
    /\ pc = "w_month"
    /\ LET current_month == Civil(LocalNow(now, gmt_tz) \div 1440).month
       IN  IF DatesValid(page.rows, current_year, current_month)
           THEN /\ windows' = Append(windows,
                    tz_localize(window_rows(page.rows, current_year, current_month), gmt_tz))
                /\ pc' = "gff_fetch"
                /\ UNCHANGED error
           ELSE /\ error' = "ValueError"
                /\ pc' = "raised"
                /\ UNCHANGED windows
    /\ UNCHANGED callVars
    /\ UNCHANGED <<LOCATION, lat, lon, fetchLog, df_hf, fluxVars, clockVars, windowVars,
                   reqVars>>

\* Time passes.  The clock is observed by the page request and by the
\* statements that read it, so a step of the clock is taken just before one.
Tick ==
    /\ pc \in {"gff_fetch", "w_year", "w_month", "h_clock"}
    /\ ticks < MaxTicks
    /\ \E d \in TickSteps : now' = now + d
    /\ ticks' = ticks + 1
    /\ UNCHANGED callVars
    /\ UNCHANGED <<pc, LOCATION, lat, lon, windows, fetchLog, df_hf, error, fluxVars,
                   windowVars, reqVars>>

\* the local instants at which a call starts
StartLocal ==
    {Minute(2025, 12, 31, 23, 30), Minute(2026, 1, 31, 23, 30),
     Minute(2026, 6, 15, 11, 0), Minute(2028, 2, 28, 23, 30),
     Minute(2026, 3, 7, 23, 30)}

Sites == {[tz |-> l, bad |-> b] : l \in KnownLabels \cup OtherLabels, b \in BadCellsOfSite}

\* get_full_forecast(lat, lon) called directly against the site
InitForecast ==
    /\ pc = "gff_call"
    /\ LOCATION = ShippedLocation
    /\ lat = OtherLat
    /\ lon = OtherLon
    /\ windows = <<>>
    /\ fetchLog = <<>>
    /\ df_hf = <<>>
    /\ error = None
    /\ InitFluxIdle
    /\ server \in Sites
    /\ \E s \in StartLocal : now = s - (60 * ServerOffset(server.tz))
    /\ ticks = 0
    /\ page = NoPage
    /\ gmt_tz = None
    /\ current_year = 0
    /\ cache = EmptyCache
    /\ ret = "top"
    /\ hf = [lat |-> None, lon |-> None]
    /\ first_forecast_time = 0
    /\ shown = NothingShown
    /\ args = <<>>
    /\ result = <<>>

NextForecast ==
    \/ GFF_Resolve
    \/ W_ReadPage
    \/ W_ReadYear
    \/ W_Build
    \/ GFF_Return
    \/ Tick

SpecForecast == InitForecast /\ [][NextForecast]_vars

-----------------------------------------------------------------------------
(* float64 arithmetic on the tagged values (IEEE 754: NaN absorbs,          *)
(* inf - inf is NaN).  A Series is a function from its timestamps to        *)
(* values; arithmetic of two Series aligns them on the union of the         *)
(* indexes and yields NaN where either side has no row.                     *)

FAdd(x, y) ==
    IF IsNaN(x) \/ IsNaN(y) THEN NaN
    ELSE IF IsInf(x) /\ IsInf(y) THEN (IF x.v = y.v THEN x ELSE NaN)
    ELSE IF IsInf(x) THEN x
    ELSE IF IsInf(y) THEN y
    ELSE Num(x.v + y.v)

FSub(x, y) == FAdd(x, FNeg(y))

SeriesAdd(a, b) ==
    [t \in DOMAIN a \cup DOMAIN b |->
        IF t \in DOMAIN a /\ t \in DOMAIN b THEN FAdd(a[t], b[t]) ELSE NaN]

SeriesSub(a, b) ==
    [t \in DOMAIN a \cup DOMAIN b |->
        IF t \in DOMAIN a /\ t \in DOMAIN b THEN FSub(a[t], b[t]) ELSE NaN]

SeriesSubScalar(a, x) == [t \in DOMAIN a |-> FSub(a[t], x)]

SeriesNeg(a) == [t \in DOMAIN a |-> FNeg(a[t])]

SetMin(S) == CHOOSE x \in S : \A y \in S : x <= y
SetMax(S) == CHOOSE x \in S : \A y \in S : y <= x

-----------------------------------------------------------------------------
(* The flux formulas, in integer fixed point.  Temperatures are in 1/900    *)
(* degC (so that (F - 32) * 5/9 is exact), fluxes in mW/m2, cloud fraction  *)
(* and albedo in percent, the wind function in 1e-11, vapour pressures in   *)
(* 0.001 mb.  Products are divided down in stages to stay in range.         *)

\* (F - 32) * (5 / 9), lines 167 and 183
F_to_C(F) == (F - 32) * 500

\* T + 273.15, in 0.01 K
Kelvin100(T) == (T + 245835) \div 9

\* Tk ** 2 in K^2 and Tk ** 4 in 1e4 K^4, from Tk in 0.01 K
K2(x) == (x * x) \div 10000
K4(x) == ((K2(x) \div 4) * (K2(x) \div 4)) \div 625

\* the cloud term added: (1 + 0.65 * Cl ** 2)
calc_solar_cloud_gain(q0_a_t, R, Cl) ==
    ((q0_a_t * (100 - R)) * ((200000 + (13 * Cl * Cl)) \div 20)) \div 1000

\* q_sw = q0_a_t * (1 - R) * (1 - 0.65 * Cl ** 2); q0_a_t in W/m2
calc_solar(q0_a_t, R, Cl) ==
    ((q0_a_t * (100 - R)) * ((200000 - (13 * Cl * Cl)) \div 20)) \div 1000

\* emissivity = 0.937e-5 * (1 + 0.17 * Cl ** 2) * Tak ** 2; q_atm = emissivity * sbc * Tak ** 4
calc_downwelling_LW(T_air, Cl) ==
    LET Tak == Kelvin100(T_air)
        emissivity == (((937 * K2(Tak)) \div 10000) * (10000 + ((17 * Cl * Cl) \div 100))) \div 10000
    IN  (((emissivity * (K4(Tak) \div 100)) \div 1000) * 567) \div 100

\* the Celsius temperature raised to the fourth power, the Kelvin offset left out
calc_upwelling_LW_celsius(T_water) == (K4(T_water \div 9) * 550) \div 1000

\* q_b = 0.97 * sbc * Twk ** 4
calc_upwelling_LW(T_water) == (K4(Kelvin100(T_water)) * 550) \div 1000

\* R * (a + b * U ** c); a, b in 1e-6, U in 1e-5 m/s, c in {0, 1}
calc_wind_function(a, b, c, R, U) ==
    R * ((a * 100000) + (b * (IF c = 1 THEN U ELSE 100000)))

\* 6.11 * 10 ** (7.5 * T / (237.3 + T)) at the whole degrees F from -40 to 80,
\* as the formula evaluates there, in 0.0001 mb
VaporPressureTable ==
    <<1843, 1954, 2070, 2193, 2323, 2459, 2602, 2753, 2912, 3079, 3255,
      3440, 3634, 3838, 4052, 4276, 4512, 4760, 5019, 5292, 5577, 5877,
      6190, 6519, 6863, 7224, 7601, 7996, 8409, 8841, 9293, 9766, 10260,
      10776, 11315, 11878, 12467, 13081, 13722, 14391, 15089, 15817,
      16576, 17368, 18193, 19053, 19949, 20883, 21855, 22867, 23921,
      25017, 26159, 27346, 28581, 29866, 31201, 32589, 34032, 35532,
      37089, 38707, 40387, 42132, 43943, 45823, 47774, 49798, 51897,
      54075, 56332, 58673, 61100, 63615, 66221, 68921, 71717, 74614,
      77613, 80718, 83932, 87259, 90701, 94262, 97946, 101756, 105697,
      109770, 113982, 118335, 122833, 127482, 132284, 137244, 142367,
      147657, 153119, 158758, 164578, 170584, 176782, 183176, 189772,
      196575, 203591, 210824, 218282, 225970, 233894, 242059, 250472,
      259140, 268069, 277266, 286736, 296488, 306528, 316863, 327501,
      338448, 349714>>

\* T_dewpoint in 1/900 degC, the conversion of a whole degree F
calc_vapor_pressure(T_dewpoint) == VaporPressureTable[(T_dewpoint \div 500) + 73]

\* the 6th-order polynomial es(Twk) of calc_latent_heat at every half degree C
\* from -5 to 30, as the polynomial evaluates there, in 0.0001 mb
SaturationTable ==
    <<42127, 43749, 45427, 47161, 48954, 50807, 52722, 54700, 56745,
      58857, 61039, 63291, 65618, 68020, 70499, 73058, 75699, 78424,
      81236, 84136, 87128, 90214, 93395, 96676, 100057, 103543, 107136,
      110838, 114653, 118582, 122631, 126800, 131094, 135515, 140068,
      144754, 149577, 154542, 159650, 164907, 170315, 175878, 181600,
      187485, 193536, 199758, 206155, 212731, 219489, 226435, 233573,
      240907, 248441, 256181, 264130, 272295, 280679, 289287, 298125,
      307198, 316511, 326069, 335878, 345943, 356270, 366864, 377731,
      388878, 400310, 412032, 424053>>

\* es at T_water (1/900 degC): the tabulated value, between two half degrees
\* the value on the line through the neighbouring ones
saturation_pressure(T_water) ==
    LET i == (T_water \div 450) + 11
        r == T_water % 450
    IN  IF r = 0 THEN SaturationTable[i]
        ELSE SaturationTable[i] + (((SaturationTable[i + 1] - SaturationTable[i]) * r) \div 450)

\* the floor of a * b / c, taken without forming a * b
MulDiv(a, b, c) == ((a \div c) * b) + (((a % c) * b) \div c)

\* ql = 0.622 / P * Lv * rho_w * (es - ea) * f_U, Lv = 2.500e6 - 2.386e3 * T_water
calc_latent_heat(P, T_water, ea, f_U) ==
    LET Lv == 2500 - ((2386 * (T_water \div 9)) \div 100000)
        es == saturation_pressure(T_water)
    IN  MulDiv(MulDiv(Lv * (es - ea), f_U \div 100, 10000), 622, 1000 * P)

\* the temperature difference taken the other way round
calc_sensible_heat_water_minus_air(T_air, f_U, T_water) ==
    ((((T_water - T_air) * (f_U \div 100)) \div 1000) * 1118) \div 1000

\* qh = Cp * rho_w * (T_air - T_water) * f_U, Cp = 1006, rho_w = 1000
calc_sensible_heat(T_air, f_U, T_water) ==
    ((((T_air - T_water) * (f_U \div 100)) \div 1000) * 1118) \div 1000

\* site.get_clearsky(times).ghi of pvlib, in W/m2: a clear winter day by hour of day
ClearSkyGhi ==
    <<0, 0, 0, 0, 0, 0, 0, 20, 120, 250, 360, 430, 450, 430, 360, 250, 120, 20,
      0, 0, 0, 0, 0, 0>>

get_solar(times) == [t \in times |-> ClearSkyGhi[(t % 24) + 1]]

-----------------------------------------------------------------------------
(* calc_fluxes *)

Index(df) == {df[i].ts : i \in 1..Len(df)}

\* df[c]: the column as a Series (the index is unique after assembly)
Column(df, c) ==
    [t \in Index(df) |-> df[CHOOSE i \in 1..Len(df) : df[i].ts = t].cells[c]]

\* Series.astype(int) raises on NaN and on inf
CanCastInt(col) == \A t \in DOMAIN col : IsNum(col[t])

\* a cast that rounds down: the floor of the value
astype_int_floor(x) == x.v \div 10

\* float -> int of a finite value: truncation toward zero (values are in tenths)
astype_int(x) == IF x.v >= 0 THEN x.v \div 10 ELSE 0 - ((0 - x.v) \div 10)

\* pd.date_range(start, end, freq='1H')
date_range(start, end) == start..end

\* the latent term added instead of subtracted
net_flux_latent_added(q_sw, q_atm, q_b, q_l, q_h) ==
    SeriesAdd(SeriesAdd(SeriesSubScalar(SeriesAdd(q_sw, q_atm), q_b), q_h), q_l)

\* line 192
net_flux(q_sw, q_atm, q_b, q_l, q_h) ==
    SeriesSub(SeriesAdd(SeriesSubScalar(SeriesAdd(q_sw, q_atm), q_b), q_h), q_l)

CastColumns == {"SkyCover", "Temperature", "SurfaceWind", "Dewpoint"}

Raised(exc, elev) ==
    [raised |-> exc, elev |-> elev, q_sw |-> NoSeries, q_atm |-> NoSeries, q_b |-> NaN,
     q_l |-> NoSeries, q_h |-> NoSeries, q_net |-> NoSeries]

\* calc_fluxes(df, T_water_C, lat, lon): the exception it raises, the
\* get_elevation calls it makes and the six values it returns
calc_fluxes(df, Tw, la, lo, loc) ==
    IF FallbackRaises(la, lo, loc) THEN Raised("ValueError", <<>>)
    ELSE IF df = <<>> THEN Raised("ValueError", <<>>)
    ELSE
    LET elev == <<<<ResolvedLat(la, lo, loc), ResolvedLon(la, lo, loc)>>>>
        times == date_range(SetMin(Index(df)), SetMax(Index(df)))
        ghi == get_solar(times)
        idx == Index(df)
        sky == Column(df, "SkyCover")
        temp == Column(df, "Temperature")
        wind == Column(df, "SurfaceWind")
        dew == Column(df, "Dewpoint")
        R == 15
        Cl == [t \in idx |-> astype_int(sky[t])]
        T_air_C == [t \in idx |-> F_to_C(astype_int(temp[t]))]
        U == [t \in idx |-> astype_int(wind[t]) * 44704]
        f_U == [t \in idx |-> calc_wind_function(1, 1, 1, 1, U[t])]
        T_dewpoint_C == [t \in idx |-> F_to_C(astype_int(dew[t]))]
        P == 1000
        Twc == 9 * Tw
        q_sw == [t \in times \cup idx |->
                    IF t \in times /\ t \in idx THEN Num(calc_solar(ghi[t], R, Cl[t])) ELSE NaN]
        q_atm == [t \in idx |-> Num(calc_downwelling_LW(T_air_C[t], Cl[t]))]
        q_b == Num(calc_upwelling_LW(Twc))
        q_l == [t \in idx |->
                    Num(calc_latent_heat(P, Twc, calc_vapor_pressure(T_dewpoint_C[t]), f_U[t]))]
        q_h == [t \in idx |-> Num(calc_sensible_heat(T_air_C[t], f_U[t], Twc))]
    IN  IF \E c \in CastColumns : ~CanCastInt(Column(df, c))
        THEN Raised("IntCastingNaNError", elev)
        ELSE [raised |-> None, elev |-> elev, q_sw |-> q_sw, q_atm |-> q_atm, q_b |-> q_b,
              q_l |-> q_l, q_h |-> q_h, q_net |-> net_flux(q_sw, q_atm, q_b, q_l, q_h)]

-----------------------------------------------------------------------------
(* build_energy_df and calc_cooling_rate *)

Reindex(a, idx) == [t \in idx |-> IF t \in DOMAIN a THEN a[t] ELSE NaN]

RECURSIVE nansum(_)
\* DataFrame.sum(axis=1): skipna=True, the empty sum is 0
nansum(xs) ==
    IF xs = <<>> THEN Num(0)
    ELSE LET rest == nansum(SubSeq(xs, 1, Len(xs) - 1))
             x == xs[Len(xs)]
         IN  IF IsNaN(x) THEN rest ELSE FAdd(rest, x)

\* the upwelling longwave column stored with the sign of the input
build_energy_df_upwelling_unsigned(q_sw, q_atm, q_b, q_l, q_h) ==
    LET idx == DOMAIN q_sw \cup DOMAIN q_atm \cup DOMAIN q_h \cup DOMAIN q_l
        sw == Reindex(q_sw, idx)
        lw == Reindex(q_atm, idx)
        up == [t \in idx |-> q_b]
        sh == Reindex(q_h, idx)
        lh == Reindex(SeriesNeg(q_l), idx)
    IN  [c \in DOMAIN NoEnergy |->
            CASE c = "downwelling SW" -> sw
              [] c = "downwelling LW" -> lw
              [] c = "upwelling LW" -> up
              [] c = "sensible heat" -> sh
              [] c = "latent heat" -> lh
              [] c = "net flux" -> [t \in idx |-> nansum(<<sw[t], lw[t], up[t], sh[t], lh[t]>>)]]

build_energy_df(q_sw, q_atm, q_b, q_l, q_h) ==
    LET idx == DOMAIN q_sw \cup DOMAIN q_atm \cup DOMAIN q_h \cup DOMAIN q_l
        sw == Reindex(q_sw, idx)
        lw == Reindex(q_atm, idx)
        up == [t \in idx |-> FNeg(q_b)]
        sh == Reindex(q_h, idx)
        lh == Reindex(SeriesNeg(q_l), idx)
    IN  [c \in DOMAIN NoEnergy |->
            CASE c = "downwelling SW" -> sw
              [] c = "downwelling LW" -> lw
              [] c = "upwelling LW" -> up
              [] c = "sensible heat" -> sh
              [] c = "latent heat" -> lh
              [] c = "net flux" -> [t \in idx |-> nansum(<<sw[t], lw[t], up[t], sh[t], lh[t]>>)]]

pw == 1000
cpw == 4182

RECURSIVE Gcd(_, _)
Gcd(a, b) == IF b = 0 THEN a ELSE Gcd(b, a % b)

Abs(n) == IF n < 0 THEN 0 - n ELSE n

\* the exact quotient n / d (d # 0) as a reduced fraction with positive denominator
Rat(n, d) ==
    LET g == Gcd(Abs(n), Abs(d))
    IN  [k |-> "num", n |-> (IF d < 0 THEN 0 - n ELSE n) \div g, d |-> Abs(d) \div g]
RatNaN == [k |-> "nan", n |-> 0, d |-> 1]
RatInf(sign) == [k |-> "inf", n |-> sign, d |-> 0]

Sign(n) == IF n > 0 THEN 1 ELSE IF n < 0 THEN -1 ELSE 0

\* the rate reported as heat loss: positive when the water cools
cooling_of_loss_positive(q, depth) ==
    IF IsNaN(q) THEN RatNaN
    ELSE IF IsInf(q) THEN RatInf(IF depth < 0 THEN q.v ELSE 0 - q.v)
    ELSE IF depth = 0 THEN (IF q.v = 0 THEN RatNaN ELSE RatInf(0 - Sign(q.v)))
    ELSE Rat(0 - (3 * q.v), 50 * pw * cpw * depth)

\* q / (pw * cpw * D) * 60 in degC/min, q in mW/m2: 60 / 1000 = 3 / 50.
\* Division by zero follows float64: x / 0 is inf with the sign of x, 0 / 0 is NaN.
cooling_of(q, depth) ==
    IF IsNaN(q) THEN RatNaN
    ELSE IF IsInf(q) THEN RatInf(IF depth < 0 THEN 0 - q.v ELSE q.v)
    ELSE IF depth = 0 THEN (IF q.v = 0 THEN RatNaN ELSE RatInf(Sign(q.v)))
    ELSE Rat(3 * q.v, 50 * pw * cpw * depth)

calc_cooling_rate(q_net, depth) == [t \in DOMAIN q_net |-> cooling_of(q_net[t], depth)]

-----------------------------------------------------------------------------
(* The flux operations called directly: on component values of a bounded    *)
(* universe (SpecEnergy), and on assembled forecasts (SpecFlux).            *)

FluxVals == {Num(-700), Num(0), Num(500), NaN, PosInf, NegInf}
FluxIndex == {7}
Depths == {-2, 0, 1, 2, 5}

InitEnergy ==
    /\ pc = "components"
    /\ InitDirect
    /\ LOCATION = ShippedLocation
    /\ lat = OtherLat
    /\ lon = OtherLon
    /\ windows = <<>>
    /\ fetchLog = <<>>
    /\ df_hf = <<>>
    /\ error = None
    /\ T_water_C = 200
    /\ D = 2
    /\ elevLog = <<>>
    /\ \E a \in FluxVals, b \in FluxVals, c \in FluxVals, d \in FluxVals, e \in FluxVals :
          flux = [q_sw |-> [t \in FluxIndex |-> a], q_atm |-> [t \in FluxIndex |-> b],
                  q_b |-> c, q_l |-> [t \in FluxIndex |-> d], q_h |-> [t \in FluxIndex |-> e],
                  q_net |-> NoSeries]
    /\ energy_df = NoEnergy
    /\ cooling_rate = NoSeries

\* line 192 of calc_fluxes on the given components
NF_Sum ==
    /\ pc = "components"
    /\ flux' = [flux EXCEPT !.q_net = net_flux(flux.q_sw, flux.q_atm, flux.q_b, flux.q_l, flux.q_h)]
    /\ pc' = "fluxes"
    /\ UNCHANGED callVars
    /\ UNCHANGED <<LOCATION, lat, lon, windows, fetchLog, df_hf, error, T_water_C, D,
                   elevLog, energy_df, cooling_rate, clockVars, windowVars, reqVars>>

\* energy_df = build_energy_df(q_sw, q_atm, q_b, q_l, q_h)
BE_Build ==
    /\ pc = "fluxes"
    /\ energy_df' = build_energy_df(flux.q_sw, flux.q_atm, flux.q_b, flux.q_l, flux.q_h)
    /\ pc' = "energy"
    /\ UNCHANGED callVars
    /\ UNCHANGED <<LOCATION, lat, lon, windows, fetchLog, df_hf, error, T_water_C, D,
                   elevLog, flux, cooling_rate, clockVars, windowVars, reqVars>>

\* cooling_rate = calc_cooling_rate(q_net, D)
CR_Call(depth) ==
    /\ pc = "energy"
    /\ D' = depth
    /\ cooling_rate' = calc_cooling_rate(flux.q_net, depth)
    /\ pc' = "cooled"
    /\ UNCHANGED callVars
    /\ UNCHANGED <<LOCATION, lat, lon, windows, fetchLog, df_hf, error, T_water_C,
                   elevLog, flux, energy_df, clockVars, windowVars, reqVars>>

NextEnergy ==
    \/ NF_Sum
    \/ BE_Build
    \/ \E depth \in Depths : CR_Call(depth)

SpecEnergy == InitEnergy /\ [][NextEnergy]_vars

\* Assembled forecasts for the direct calls of calc_fluxes: rows at any
\* non-empty set of the hours FirstHour .. FirstHour + NHours - 1, each row one
\* of two weather profiles, and at most one cell missing or infinite.
NHours == 3
FirstHour == 7
FluxHours == FirstHour..(FirstHour + NHours - 1)

Profiles ==
    {[Temperature |-> Num(410), Dewpoint |-> Num(300), SurfaceWind |-> Num(100),
      SkyCover |-> Num(500), RelHumidity |-> Num(650)],
     [Temperature |-> Num(-35), Dewpoint |-> Num(-105), SurfaceWind |-> Num(0),
      SkyCover |-> Num(1000), RelHumidity |-> Num(900)]}

NoAnomaly == [t |-> -1, c |-> "Temperature", x |-> NaN]
Anomalies ==
    {NoAnomaly} \cup {[t |-> t, c |-> c, x |-> x] : t \in FluxHours, c \in Cols, x \in {NaN, PosInf}}

RECURSIVE Ascending(_)
Ascending(S) == IF S = {} THEN <<>> ELSE <<SetMin(S)>> \o Ascending(S \ {SetMin(S)})

Frame(H, prof, an) ==
    LET hs == Ascending(H)
    IN  [i \in 1..Len(hs) |->
            [ts |-> hs[i],
             cells |-> [c \in Cols |-> IF an.t = hs[i] /\ an.c = c THEN an.x ELSE prof[hs[i]][c]]]]

FluxFrames ==
    {Frame(H, prof, an) : H \in (SUBSET FluxHours) \ {{}}, prof \in [FluxHours -> Profiles],
                          an \in Anomalies}

WaterTemps == {0, 200, 550}

InitFlux ==
    /\ pc = "cf_call"
    /\ InitDirect
    /\ LOCATION = ShippedLocation
    /\ \/ lat = None /\ lon = None
       \/ lat = OtherLat /\ lon = OtherLon
    /\ windows = <<>>
    /\ fetchLog = <<>>
    /\ df_hf \in FluxFrames
    /\ error = None
    /\ T_water_C \in WaterTemps
    /\ D = 2
    /\ elevLog = <<>>
    /\ flux = NoFlux
    /\ energy_df = NoEnergy
    /\ cooling_rate = NoSeries

\* q_sw, q_atm, q_b, q_l, q_h, q_net = calc_fluxes(df_hf, T_water_C, lat, lon)
CF_Call ==
    /\ pc = "cf_call"
    /\ LET r == calc_fluxes(df_hf, T_water_C, lat, lon, LOCATION)
       IN  /\ elevLog' = elevLog \o r.elev
           /\ IF r.raised # None
              THEN /\ error' = r.raised
                   /\ pc' = "raised"
                   /\ UNCHANGED flux
              ELSE /\ flux' = [q_sw |-> r.q_sw, q_atm |-> r.q_atm, q_b |-> r.q_b,
                               q_l |-> r.q_l, q_h |-> r.q_h, q_net |-> r.q_net]
                   /\ pc' = "fluxes"
                   /\ UNCHANGED error
    /\ UNCHANGED callVars
    /\ UNCHANGED <<LOCATION, lat, lon, windows, fetchLog, df_hf, T_water_C, D,
                   energy_df, cooling_rate, clockVars, windowVars, reqVars>>

NextFlux ==
    \/ CF_Call
    \/ BE_Build
    \/ \E depth \in Depths : CR_Call(depth)

SpecFlux == InitFlux /\ [][NextFlux]_vars

-----------------------------------------------------------------------------
(* The "Compute Heat Fluxes" handler, iif.py lines 457-504.                 *)

\* The plotting functions of hff_plots: a figure is the data it is drawn from.
plot_forecast_heat_fluxes(table) == table
plot_met(df) == df
plot_cooling_rate(rate) == rate
plot_parcel_cooling(rate, T0) == [rate |-> rate, T0 |-> T0]

\* df_hf.replace([np.inf, -np.inf], np.nan)
replace_inf(df) ==
    [i \in 1..Len(df) |->
        [ts |-> df[i].ts,
         cells |-> [c \in Cols |-> IF IsInf(df[i].cells[c]) THEN NaN ELSE df[i].cells[c]]]]

\* line 460
use_default_loc == hf.lat = LOCATION.lat /\ hf.lon = LOCATION.lon

\* the arguments of get_full_forecast and calc_fluxes, lines 461-464 and 483-486
ArgLat == IF use_default_loc THEN None ELSE hf.lat
ArgLon == IF use_default_loc THEN None ELSE hf.lon

\* an assembly of the site's pages at instant t, as an earlier request left
\* it in the cache
forecast_at(t, srv) ==
    LET c == Civil(LocalNow(t, tz_map[srv.tz]) \div 1440)
    IN  assemble([k \in 1..Len(aheadhours) |->
            tz_localize(window_rows(ServerPage(t, aheadhours[k], srv).rows, c.year, c.month),
                        tz_map[srv.tz])])

\* lines 457-464: the button is pressed, the forecast is asked for
H_Click ==
    /\ pc = "h_idle"
    /\ lat' = ArgLat
    /\ lon' = ArgLon
    /\ windows' = <<>>
    /\ ret' = "h_sanitise"
    /\ pc' = "gff_call"
    /\ UNCHANGED callVars
    /\ UNCHANGED <<LOCATION, fetchLog, df_hf, error, fluxVars, clockVars, windowVars, cache,
                   hf, first_forecast_time, shown>>

\* the meteorology chart drawn as soon as the forecast is there, ahead of
\* the flux computation
H_Sanitise_chart_first ==
    /\ pc = "h_sanitise"
    /\ df_hf' = replace_inf(df_hf)
    /\ shown' = [shown EXCEPT !.met = plot_met(replace_inf(df_hf)),
                              !.order = Append(@, "met")]
    /\ IF df_hf = <<>>
       THEN /\ error' = "IndexError"
            /\ pc' = "raised"
            /\ UNCHANGED first_forecast_time
       ELSE /\ first_forecast_time' = df_hf[1].ts
            /\ pc' = "h_clock"
            /\ UNCHANGED error
    /\ UNCHANGED callVars
    /\ UNCHANGED <<LOCATION, lat, lon, windows, fetchLog, fluxVars, clockVars, windowVars,
                   cache, ret, hf>>

\* lines 465-467: replace the infinities, take the first timestamp
H_Sanitise ==
    /\ pc = "h_sanitise"
    /\ df_hf' = replace_inf(df_hf)
    /\ IF df_hf = <<>>
       THEN /\ error' = "IndexError"
            /\ pc' = "raised"
            /\ UNCHANGED first_forecast_time
       ELSE /\ first_forecast_time' = df_hf[1].ts
            /\ pc' = "h_clock"
            /\ UNCHANGED error
    /\ UNCHANGED callVars
    /\ UNCHANGED <<LOCATION, lat, lon, windows, fetchLog, fluxVars, clockVars, windowVars,
                   cache, ret, hf, shown>>

\* the forecast asked for again without get_full_forecast.clear()
H_Clock_keep_cache ==
    /\ pc = "h_clock"
    /\ LET time_now == LocalNow(now, tz_map[server.tz])
       IN  IF time_now - (60 * first_forecast_time) > 60
           THEN /\ lat' = ArgLat
                /\ lon' = ArgLon
                /\ windows' = <<>>
                /\ ret' = "h_flux"
                /\ pc' = "gff_call"
           ELSE /\ pc' = "h_flux"
                /\ UNCHANGED <<lat, lon, windows, ret>>
    /\ UNCHANGED callVars
    /\ UNCHANGED <<LOCATION, fetchLog, df_hf, error, fluxVars, clockVars, windowVars, hf,
                   first_forecast_time, shown, cache>>

\* lines 469-481: read the clock; a forecast that starts more than an hour
\* ago is dropped from the cache and asked for again
H_Clock ==
    /\ pc = "h_clock"
    /\ LET time_now == LocalNow(now, tz_map[server.tz])
       IN  IF time_now - (60 * first_forecast_time) > 60
           THEN /\ cache' = EmptyCache
                /\ lat' = ArgLat
                /\ lon' = ArgLon
                /\ windows' = <<>>
                /\ ret' = "h_flux"
                /\ pc' = "gff_call"
           ELSE /\ pc' = "h_flux"
                /\ UNCHANGED <<cache, lat, lon, windows, ret>>
    /\ UNCHANGED callVars
    /\ UNCHANGED <<LOCATION, fetchLog, df_hf, error, fluxVars, clockVars, windowVars, hf,
                   first_forecast_time, shown>>

\* lines 483-486
H_Flux ==
    /\ pc = "h_flux"
    /\ LET r == calc_fluxes(df_hf, T_water_C, ArgLat, ArgLon, LOCATION)
       IN  /\ elevLog' = elevLog \o r.elev
           /\ IF r.raised # None
              THEN /\ error' = r.raised
                   /\ pc' = "raised"
                   /\ UNCHANGED flux
              ELSE /\ flux' = [q_sw |-> r.q_sw, q_atm |-> r.q_atm, q_b |-> r.q_b,
                               q_l |-> r.q_l, q_h |-> r.q_h, q_net |-> r.q_net]
                   /\ pc' = "h_energy"
                   /\ UNCHANGED error
    /\ UNCHANGED callVars
    /\ UNCHANGED <<LOCATION, lat, lon, windows, fetchLog, df_hf, T_water_C, D, energy_df,
                   cooling_rate, clockVars, windowVars, reqVars>>

\* lines 488-490: the energy table and its chart
H_Energy ==
    /\ pc = "h_energy"
    /\ energy_df' = build_energy_df(flux.q_sw, flux.q_atm, flux.q_b, flux.q_l, flux.q_h)
    /\ shown' = [shown EXCEPT
                   !.heat = plot_forecast_heat_fluxes(
                               build_energy_df(flux.q_sw, flux.q_atm, flux.q_b, flux.q_l, flux.q_h)),
                   !.order = Append(@, "heat")]
    /\ pc' = "h_met"
    /\ UNCHANGED callVars
    /\ UNCHANGED <<LOCATION, lat, lon, windows, fetchLog, df_hf, error, T_water_C, D, elevLog,
                   flux, cooling_rate, clockVars, windowVars, cache, ret, hf,
                   first_forecast_time>>

\* lines 492-493: the meteorology chart of the forecast
H_Met ==
    /\ pc = "h_met"
    /\ shown' = [shown EXCEPT !.met = plot_met(df_hf), !.order = Append(@, "met")]
    /\ pc' = "h_cooling"
    /\ UNCHANGED callVars
    /\ UNCHANGED <<LOCATION, lat, lon, windows, fetchLog, df_hf, error, fluxVars, clockVars,
                   windowVars, cache, ret, hf, first_forecast_time>>

\* lines 495-501: the cooling rate and its plots
H_Cooling ==
    /\ pc = "h_cooling"
    /\ cooling_rate' = calc_cooling_rate(flux.q_net, D)
    /\ shown' = [shown EXCEPT
                   !.cool = plot_cooling_rate(calc_cooling_rate(flux.q_net, D)),
                   !.parcel = plot_parcel_cooling(calc_cooling_rate(flux.q_net, D), T_water_C),
                   !.order = @ \o <<"cool", "parcel">>]
    /\ pc' = "h_done"
    /\ UNCHANGED callVars
    /\ UNCHANGED <<LOCATION, lat, lon, windows, fetchLog, df_hf, error, T_water_C, D, elevLog,
                   flux, energy_df, clockVars, windowVars, cache, ret, hf,
                   first_forecast_time>>

\* lines 503-504: any exception of the request ends in st.error
H_Error ==
    /\ pc = "raised"
    /\ ret # "top"
    /\ shown' = [shown EXCEPT !.err = error, !.order = Append(@, "error")]
    /\ pc' = "h_done"
    /\ UNCHANGED callVars
    /\ UNCHANGED <<LOCATION, lat, lon, windows, fetchLog, df_hf, error, fluxVars, clockVars,
                   windowVars, cache, ret, hf, first_forecast_time>>

\* the "Refresh Data" button of this session, iif.py lines 508-510:
\* st.cache_data.clear(), then st.rerun(): the script run ends and a new one
\* starts, with nothing fetched, nothing computed and nothing shown
H_Refresh ==
    /\ pc \in {"h_idle", "h_done"}
    /\ cache' = EmptyCache
    /\ pc' = "h_idle"
    /\ lat' = None
    /\ lon' = None
    /\ windows' = <<>>
    /\ fetchLog' = <<>>
    /\ df_hf' = <<>>
    /\ error' = None
    /\ elevLog' = <<>>
    /\ flux' = NoFlux
    /\ energy_df' = NoEnergy
    /\ cooling_rate' = NoSeries
    /\ page' = NoPage
    /\ gmt_tz' = None
    /\ current_year' = 0
    /\ ret' = "top"
    /\ first_forecast_time' = 0
    /\ shown' = NothingShown
    /\ UNCHANGED callVars
    /\ UNCHANGED <<LOCATION, T_water_C, D, clockVars, server, hf>>

\* the "Refresh Data" button pressed in another session while this request
\* runs: st.cache_data is shared by the sessions of the server, the rerun is
\* the other session's.  Clearing an empty cache changes nothing, so the
\* step is taken where the cache holds a forecast.
H_RefreshElsewhere ==
    /\ pc \notin {"h_idle", "h_done"}
    /\ cache.hit
    /\ cache' = EmptyCache
    /\ UNCHANGED callVars
    /\ UNCHANGED <<pc, LOCATION, lat, lon, windows, fetchLog, df_hf, error, fluxVars,
                   clockVars, windowVars, ret, hf, first_forecast_time, shown>>

RequestLabels == {"EST", "UTC"}
RequestStarts == {Minute(2025, 12, 31, 23, 30), Minute(2026, 6, 15, 11, 0)}
CacheAges == {0, 60}

Init ==
    /\ pc = "h_idle"
    /\ LOCATION = ShippedLocation
    /\ hf \in {[lat |-> DefaultLat, lon |-> DefaultLon], [lat |-> OtherLat, lon |-> OtherLon]}
    /\ lat = None
    /\ lon = None
    /\ windows = <<>>
    /\ fetchLog = <<>>
    /\ df_hf = <<>>
    /\ error = None
    /\ InitFluxIdle
    /\ server \in {[tz |-> l, bad |-> b] : l \in RequestLabels, b \in BadCellsOfSite}
    /\ \E s \in RequestStarts : now = s - (60 * ServerOffset(server.tz))
    /\ ticks = 0
    /\ page = NoPage
    /\ gmt_tz = None
    /\ current_year = 0
    /\ \/ cache = EmptyCache
       \/ /\ server.tz \in DOMAIN tz_map
          /\ \E age \in CacheAges : cache = [hit |-> TRUE, df |-> forecast_at(now - age, server)]
    /\ ret = "top"
    /\ first_forecast_time = 0
    /\ shown = NothingShown
    /\ args = <<>>
    /\ result = <<>>

Next ==
    \/ H_Click
    \/ GFF_Resolve
    \/ W_ReadPage
    \/ W_ReadYear
    \/ W_Build
    \/ GFF_Return
    \/ H_Sanitise
    \/ H_Clock
    \/ H_Flux
    \/ H_Energy
    \/ H_Met
    \/ H_Cooling
    \/ H_Error
    \/ H_Refresh
    \/ H_RefreshElsewhere
    \/ Tick

Spec == Init /\ [][Next]_vars

-----------------------------------------------------------------------------
(* The flux formulas called on their own.  The program is idle; args holds  *)
(* the arguments of the call and result what the function returned.         *)

IdleProgram ==
    /\ LOCATION = ShippedLocation
    /\ lat = None
    /\ lon = None
    /\ windows = <<>>
    /\ fetchLog = <<>>
    /\ df_hf = <<>>
    /\ error = None
    /\ InitFluxIdle
    /\ now = 0
    /\ ticks = 0
    /\ server = NoServer
    /\ page = NoPage
    /\ gmt_tz = None
    /\ current_year = 0
    /\ cache = EmptyCache
    /\ ret = "top"
    /\ hf = [lat |-> None, lon |-> None]
    /\ first_forecast_time = 0
    /\ shown = NothingShown

idleVars == <<LOCATION, lat, lon, windows, fetchLog, df_hf, error, fluxVars, clockVars,
              windowVars, reqVars>>

\* calc_solar: clear-sky irradiance in W/m2, albedo and cloud cover in percent
GhiVals == {0, 1, 120, 450, 1000}
AlbedoVals == {0, 15, 60, 100, 101, 150, 200}
CloudVals == {0, 1, 10, 50, 99, 100}

InitSolar ==
    /\ pc = "solar_call"
    /\ IdleProgram
    /\ args \in [q0_a_t : GhiVals, R : AlbedoVals, Cl1 : CloudVals, Cl2 : CloudVals]
    /\ result = <<>>

\* calc_solar(q0_a_t, R, Cl1) and calc_solar(q0_a_t, R, Cl2)
Solar_Call ==
    /\ pc = "solar_call"
    /\ result' = <<calc_solar(args.q0_a_t, args.R, args.Cl1),
                   calc_solar(args.q0_a_t, args.R, args.Cl2)>>
    /\ pc' = "solar_done"
    /\ UNCHANGED <<args, idleVars>>

NextSolar == Solar_Call

SpecSolar == InitSolar /\ [][NextSolar]_vars

\* calc_upwelling_LW: water temperatures in 1/900 degC, from -400 degC to
\* 100 degC, absolute zero (-273.15 degC) among them, and neighbours 0.05
\* and 0.1 degC apart
WaterGrid ==
    {-360000, -270000, -245835, -180000, -90000, -4500, 0, 90, 1800, 1845, 27000, 90000}

InitUpwelling ==
    /\ pc = "upwelling_call"
    /\ IdleProgram
    /\ args \in [T1 : WaterGrid, T2 : WaterGrid]
    /\ result = <<>>

\* calc_upwelling_LW(T1) and calc_upwelling_LW(T2)
Upwelling_Call ==
    /\ pc = "upwelling_call"
    /\ result' = <<calc_upwelling_LW(args.T1), calc_upwelling_LW(args.T2)>>
    /\ pc' = "upwelling_done"
    /\ UNCHANGED <<args, idleVars>>

NextUpwelling == Upwelling_Call

SpecUpwelling == InitUpwelling /\ [][NextUpwelling]_vars

\* calc_sensible_heat: temperatures in 1/900 degC on a grid of tenths of a
\* degree, wind function in 1e-11
AirWaterGrid == {-27000, -9000, -90, 0, 90, 1800, 9000, 27000}
WindFunctionVals == {-100000, 0, 1200, 100000, 144704, 1000000, 2335200}

InitSensible ==
    /\ pc = "sensible_call"
    /\ IdleProgram
    /\ args \in [T_air : AirWaterGrid, f_U : WindFunctionVals, T_water : AirWaterGrid]
    /\ result = <<>>

\* calc_sensible_heat(T_air, f_U, T_water)
Sensible_Call ==
    /\ pc = "sensible_call"
    /\ result' = <<calc_sensible_heat(args.T_air, args.f_U, args.T_water)>>
    /\ pc' = "sensible_done"
    /\ UNCHANGED <<args, idleVars>>

NextSensible == Sensible_Call

SpecSensible == InitSensible /\ [][NextSensible]_vars

-----------------------------------------------------------------------------
(* water_temp.py: the station water temperature for the forecast.  args is  *)
(* what the CO-OPS service answers for each station id, result the ids      *)
(* queried so far and the value returned.                                   *)

\* STATIONS_DATA[name]['id'], lines 4-29
STATIONS_DATA ==
    [name \in {"S.W. Pier, MI", "Little Rapids, MI", "De Tour Village, MI", "Mackinaw City, MI"} |->
        CASE name = "S.W. Pier, MI" -> "9076070"
          [] name = "Little Rapids, MI" -> "9076033"
          [] name = "De Tour Village, MI" -> "9075099"
          [] name = "Mackinaw City, MI" -> "9075080"]

StationIds == {STATIONS_DATA[name] : name \in DOMAIN STATIONS_DATA}

\* the stations in the order STATIONS_DATA lists them
priority_stations_as_listed ==
    <<"S.W. Pier, MI", "Little Rapids, MI", "De Tour Village, MI", "Mackinaw City, MI">>

\* lines 173-178
priority_stations ==
    <<"Little Rapids, MI", "S.W. Pier, MI", "De Tour Village, MI", "Mackinaw City, MI">>

\* the answers of the service: a failed request, a reply without readings, a
\* reply whose latest reading is v tenths of a degree Fahrenheit
StationReadings == {320, 356, 500}
ServiceAnswers ==
    {[kind |-> "failure", v |-> 0], [kind |-> "empty", v |-> 0]}
        \cup {[kind |-> "data", v |-> f] : f \in StationReadings}

\* get_water_temperature(station_id), lines 68-98
get_water_temperature(service, station_id) ==
    IF service[station_id].kind = "failure" THEN [status |-> "error", latest_temp |-> 0]
    ELSE IF service[station_id].kind = "data"
    THEN [status |-> "success", latest_temp |-> service[station_id].v]
    ELSE [status |-> "no_data", latest_temp |-> 0]

InitWaterTemp ==
    /\ pc = "wt_loop"
    /\ IdleProgram
    /\ args \in [StationIds -> ServiceAnswers]
    /\ result = [queried |-> <<>>, ret |-> <<>>]

\* one turn of the loop of get_station_water_temp_for_hff, lines 180-189:
\* the next station is asked; a success is converted (temp_f - 32) * (5 / 9),
\* here in 1/900 degC, and returned with the name of the station
WT_Query ==
    /\ pc = "wt_loop"
    /\ Len(result.queried) < Len(priority_stations)
    /\ LET station_name == priority_stations[Len(result.queried) + 1]
           r == get_water_temperature(args, STATIONS_DATA[station_name])
       IN  /\ station_name \in DOMAIN STATIONS_DATA
           /\ IF r.status = "success"
              THEN /\ result' = [queried |-> Append(result.queried, STATIONS_DATA[station_name]),
                                 ret |-> <<(r.latest_temp - 320) * 50, station_name>>]
                   /\ pc' = "wt_done"
              ELSE /\ result' = [result EXCEPT !.queried = Append(@, STATIONS_DATA[station_name])]
                   /\ pc' = "wt_loop"
    /\ UNCHANGED <<args, idleVars>>

\* line 192: the list is exhausted, return 2.0, "Default"
WT_Default ==
    /\ pc = "wt_loop"
    /\ Len(result.queried) = Len(priority_stations)
    /\ result' = [result EXCEPT !.ret = <<1800, "Default">>]
    /\ pc' = "wt_done"
    /\ UNCHANGED <<args, idleVars>>

NextWaterTemp ==
    \/ WT_Query
    \/ WT_Default

SpecWaterTemp == InitWaterTemp /\ [][NextWaterTemp]_vars

-----------------------------------------------------------------------------
(* Forecast assembly: deduplication and coercion *)

\* the first row, in list order of the windows, that carries timestamp t
IsFirstOccurrence(w, i) ==
    /\ \A v \in 1..(w - 1) : \A j \in 1..Len(windows[v]) : windows[v][j].ts # windows[w][i].ts
    /\ \A j \in 1..(i - 1) : windows[w][j].ts # windows[w][i].ts

\* what a reader of the table expects of each stub cell
ExpectedCell(tok) ==
    CASE tok = <<"4", "1">> -> Num(410)
      [] tok = <<"-", "3", ".", "5">> -> Num(-35)
      [] tok = <<"N", "/", "A">> -> NaN
      [] tok = <<"i", "n", "f">> -> PosInf
      [] tok = <<>> -> NaN

RowsAt(t) == {k \in 1..Len(df_hf) : df_hf[k].ts = t}

\* C1: at every timestamp present in the windows the assembled series holds
\* exactly one row, and it is the row of the window that comes first in the
\* list; a later overlapping window never overrides it.
C1_FirstWindowWins ==
    pc = "returned" =>
        \A w \in 1..Len(windows) : \A i \in 1..Len(windows[w]) :
            IsFirstOccurrence(w, i) =>
                /\ Cardinality(RowsAt(windows[w][i].ts)) = 1
                /\ \A k \in RowsAt(windows[w][i].ts) : \A c \in Cols :
                      df_hf[k].cells[c] = ExpectedCell(windows[w][i].cells[c])

\* two windows report different values at a shared timestamp and the series
\* holds the value of the earlier one
C1_Witness ==
    /\ pc = "returned"
    /\ \E w \in 1..Len(windows), v \in 1..Len(windows) :
         \E i \in 1..Len(windows[w]), j \in 1..Len(windows[v]) :
            /\ w < v
            /\ IsFirstOccurrence(w, i)
            /\ windows[v][j].ts = windows[w][i].ts
            /\ ExpectedCell(windows[v][j].cells["Temperature"])
                  # ExpectedCell(windows[w][i].cells["Temperature"])
            /\ \E k \in RowsAt(windows[w][i].ts) :
                  df_hf[k].cells["Temperature"] = ExpectedCell(windows[w][i].cells["Temperature"])

\* C9: every cell of the assembled series is the number its text denotes, or
\* the missing value when the text denotes none; the only failure of an
\* assembly is the location failure raised before any fetch.
C9_CoercionNeverFails ==
    /\ pc = "raised" => (error = "ValueError" /\ fetchLog = <<>>)
    /\ pc = "returned" =>
          /\ Len(windows) = Len(aheadhours)
          /\ \A w \in 1..Len(windows) : \A i \in 1..Len(windows[w]) :
                RowsAt(windows[w][i].ts) # {}
    /\ pc = "returned" =>
          \A k \in 1..Len(df_hf) :
            \E w \in 1..Len(windows) : \E i \in 1..Len(windows[w]) :
                /\ windows[w][i].ts = df_hf[k].ts
                /\ IsFirstOccurrence(w, i)
                /\ \A c \in Cols : df_hf[k].cells[c] = ExpectedCell(windows[w][i].cells[c])

\* an unparsable cell and a parsable one are both in the assembled series
C9_Witness ==
    /\ pc = "returned"
    /\ \E k \in 1..Len(df_hf) : df_hf[k].cells["SkyCover"] = NaN
    /\ \E k \in 1..Len(df_hf) : df_hf[k].cells["SkyCover"] = Num(-35)
    /\ \E w \in 1..Len(windows) : \E i \in 1..Len(windows[w]) :
          windows[w][i].cells["SkyCover"] = <<"N", "/", "A">> /\ IsFirstOccurrence(w, i)

\* C5 (as claimed): no window is ever fetched with a missing latitude or
\* longitude; the call fails instead.
C5_NeverFetchesWithoutCoordinates ==
    \A n \in 1..Len(fetchLog) : fetchLog[n][1] # None /\ fetchLog[n][2] # None

-----------------------------------------------------------------------------
(* Net flux, energy table, cooling rate *)

Components(t) == <<flux.q_sw[t], flux.q_atm[t], flux.q_b, flux.q_l[t], flux.q_h[t]>>

AllFinite(xs) == \A i \in 1..Len(xs) : IsNum(xs[i])
NoneMissing(xs) == \A i \in 1..Len(xs) : ~IsNaN(xs[i])

\* y is the float -x
Negated(x, y) == x.k = y.k /\ x.v + y.v = 0

\* C7: q_net = q_sw + q_atm - q_b + q_h - q_l at every timestamp (a missing
\* component makes q_net missing), and the energy table stores upwelling
\* longwave and latent heat negated, the other three as given.
C7_NetFluxSigns ==
    /\ pc \in {"fluxes", "energy", "cooled"} =>
          \A t \in FluxIndex :
            /\ AllFinite(Components(t)) =>
                  flux.q_net[t] =
                      Num(flux.q_sw[t].v + flux.q_atm[t].v - flux.q_b.v + flux.q_h[t].v - flux.q_l[t].v)
            /\ ~NoneMissing(Components(t)) => IsNaN(flux.q_net[t])
    /\ pc \in {"energy", "cooled"} =>
          \A t \in FluxIndex :
            /\ Negated(flux.q_b, energy_df["upwelling LW"][t])
            /\ Negated(flux.q_l[t], energy_df["latent heat"][t])
            /\ energy_df["downwelling SW"][t] = flux.q_sw[t]
            /\ energy_df["downwelling LW"][t] = flux.q_atm[t]
            /\ energy_df["sensible heat"][t] = flux.q_h[t]

\* finite components with non-zero losses: 500 + 0 - 500 + (-700) - (-700) = 0
C7_Witness ==
    /\ pc = "energy"
    /\ \E t \in FluxIndex :
          /\ Components(t) = <<Num(500), Num(0), Num(500), Num(-700), Num(-700)>>
          /\ flux.q_net[t] = Num(0)
          /\ energy_df["upwelling LW"][t] = Num(-500)
          /\ energy_df["latent heat"][t] = Num(700)

\* C6 (as claimed): the net flux column equals q_net at every timestamp, for
\* any component values.
C6_NetColumnEqualsNetFlux ==
    pc \in {"energy", "cooled"} =>
        \A t \in FluxIndex : energy_df["net flux"][t] = flux.q_net[t]

\* C6 (amended): where no component is missing the net flux column equals
\* q_net; where one is missing q_net is missing and the column is the sum of
\* the components that are present.
C6_NetColumnEqualsNetFluxWherePresent ==
    pc \in {"energy", "cooled"} =>
        \A t \in FluxIndex :
            /\ NoneMissing(Components(t)) => energy_df["net flux"][t] = flux.q_net[t]
            /\ ~NoneMissing(Components(t)) =>
                  /\ IsNaN(flux.q_net[t])
                  /\ energy_df["net flux"][t] =
                        nansum(<<flux.q_sw[t], flux.q_atm[t], FNeg(flux.q_b), flux.q_h[t],
                                 FNeg(flux.q_l[t])>>)

\* a table row with every component present and a non-zero net flux
C6_Witness ==
    /\ pc = "energy"
    /\ \E t \in FluxIndex :
          /\ AllFinite(Components(t))
          /\ flux.q_b # Num(0)
          /\ flux.q_net[t] # Num(0)
          /\ energy_df["net flux"][t] = flux.q_net[t]

\* C3 (as claimed): calc_cooling_rate returns no value for a depth of zero or
\* below.
C3_NonPositiveDepthFails ==
    pc = "cooled" => D > 0

\* C10 (as claimed): with a single missing or infinite cell among temperature,
\* dewpoint, surface wind and sky cover, calc_fluxes still returns the flux
\* series for every timestamp of the forecast.
BadCells(df) ==
    {<<i, c>> \in (1..Len(df)) \X CastColumns : ~IsNum(df[i].cells[c])}

C10_SingleBadCellDoesNotAbort ==
    (pc # "cf_call" /\ Cardinality(BadCells(df_hf)) = 1) =>
        /\ pc # "raised"
        /\ Index(df_hf) \subseteq DOMAIN flux.q_net

-----------------------------------------------------------------------------
(* Forecast assembly against the site: order of the index, timezone table  *)

Unique(df) == \A i, j \in 1..Len(df) : df[i].ts = df[j].ts => i = j

StrictlyAscending(df) == \A i \in 1..(Len(df) - 1) : df[i].ts < df[i + 1].ts

\* C2: after forecast assembly the timestamps of the assembled series are
\* unique and strictly ascending in row order, for any windows the fetcher
\* returned: no timestamp appears twice and no row has a timestamp less than
\* or equal to that of the row before it.
C2_UniqueAndAscending ==
    pc = "returned" => Unique(df_hf) /\ StrictlyAscending(df_hf)

\* the offsets (hours east of UTC) of the ten abbreviations
C4_Offsets ==
    [tz \in {"AKST", "AKDT", "PST", "PDT", "MST", "MDT", "CST", "CDT", "EST", "EDT"} |->
        CASE tz = "AKST" -> -9 [] tz = "AKDT" -> -8
          [] tz = "PST" -> -8  [] tz = "PDT" -> -7
          [] tz = "MST" -> -7  [] tz = "MDT" -> -6
          [] tz = "CST" -> -6  [] tz = "CDT" -> -5
          [] tz = "EST" -> -5  [] tz = "EDT" -> -4]

C4_StandardOf ==
    [tz \in {"AKDT", "PDT", "MDT", "CDT", "EDT"} |->
        CASE tz = "AKDT" -> "AKST" [] tz = "PDT" -> "PST" [] tz = "MDT" -> "MST"
          [] tz = "CDT" -> "CST" [] tz = "EDT" -> "EST"]

\* C4: tz_to_gmt_offset maps each of AKST, AKDT, PST, PDT, MST, MDT, CST, CDT,
\* EST, EDT to its fixed UTC-offset zone, each daylight abbreviation one hour
\* east of its standard one; for every other token the call fails (the
\* KeyError of the dict lookup) and the window call returns nothing: no
\* spelling outside the ten is matched.
C4_TimezoneTable ==
    /\ pc \in {"w_year", "w_month"} =>
          /\ page.tz \in DOMAIN C4_Offsets
          /\ gmt_tz \in {"Etc/GMT+9", "Etc/GMT+8", "Etc/GMT+7", "Etc/GMT+6", "Etc/GMT+5",
                         "Etc/GMT+4"}
          /\ utcoffset(gmt_tz) = C4_Offsets[page.tz]
          /\ page.tz \in DOMAIN C4_StandardOf =>
                utcoffset(gmt_tz) = utcoffset(tz_map[C4_StandardOf[page.tz]]) + 1
    /\ (page # NoPage /\ page.tz \notin DOMAIN C4_Offsets) =>
          /\ pc = "raised"
          /\ error = "KeyError"
          /\ gmt_tz = None
          /\ windows = <<>>
          /\ df_hf = <<>>
    /\ error = "KeyError" => page.tz \notin DOMAIN C4_Offsets

\* a daylight abbreviation has been resolved by a window call
C4_Witness ==
    /\ pc = "w_year"
    /\ page.tz = "AKDT"
    /\ gmt_tz = "Etc/GMT+8"
    /\ Len(fetchLog) = 1

-----------------------------------------------------------------------------
(* The compute request: infinities *)

NoInf(df) == \A i \in 1..Len(df) : \A c \in Cols : ~IsInf(df[i].cells[c])

NoInfSeries(q) == \A t \in DOMAIN q : ~IsInf(q[t])

\* C8: on every path of a compute request, the path that drops a stale
\* forecast and fetches again included, every +inf or -inf value has been
\* replaced by the missing value before the flux components and the energy
\* table are produced and handed to the page.
C8_NoInfinityPastTheAggregator ==
    /\ pc \in {"h_flux", "h_energy", "h_met", "h_cooling"} => NoInf(df_hf)
    /\ NoInf(shown.met)
    /\ \A c \in DOMAIN shown.heat : NoInfSeries(shown.heat[c])

-----------------------------------------------------------------------------
(* The compute request: errors *)

Charts == {"heat", "met", "cool", "parcel"}

ShownKinds == {shown.order[i] : i \in 1..Len(shown.order)}

\* C11: within one compute request, a step that fails ends the request in
\* the error message, and that request has displayed no flux result: no
\* heat-flux chart, meteorology chart or cooling-rate plot is on the page of a
\* request that raised.
C11_ErrorShowsNoCharts ==
    /\ error # None => ShownKinds \cap Charts = {}
    /\ (error # None /\ pc = "h_done") => (shown.err = error /\ shown.order = <<"error">>)
    /\ shown.err # None => (shown.err = error /\ pc = "h_done")
    /\ (error = None /\ pc = "h_done") => shown.order = <<"heat", "met", "cool", "parcel">>

\* the flux computation, the last step that can fail, has raised and the
\* message is on the page
C11_Witness ==
    /\ pc = "h_done"
    /\ error = "IntCastingNaNError"
    /\ shown.err = "IntCastingNaNError"
    /\ shown.order = <<"error">>
    /\ df_hf # <<>>

-----------------------------------------------------------------------------
(* Forecast assembly: memoization, fetch order *)

\* C12: forecast assembly is a function of the raw windows fetched by the
\* call: what a call of get_full_forecast returns is the assembly of the four
\* windows that this call fetched, whatever the time of the call and whatever
\* calls were made before it; the result of an earlier call is never
\* returned in its place.
C12_ReturnsWhatThisCallFetched ==
    pc \in {"returned", "h_sanitise"} =>
        /\ Len(windows) = Len(aheadhours)
        /\ df_hf = assemble(windows)

-----------------------------------------------------------------------------
(* The flux formulas *)

\* C13 (as claimed): for every clear-sky irradiance >= 0, every albedo
\* R >= 0 and every pair of cloud fractions Cl1 <= Cl2 in [0, 1],
\* calc_solar(ghi, R, Cl2) <= calc_solar(ghi, R, Cl1).
C13_ShortwaveNonIncreasingInCloud ==
    (pc = "solar_done" /\ args.Cl1 <= args.Cl2) => result[2] <= result[1]

\* C13 (amended): the same for an albedo in [0, 1]; for an albedo above 1
\* the factor (1 - R) is negative and the shortwave term does not decrease
\* with the cloud fraction.
C13_ShortwaveNonIncreasingInCloudForAlbedoUpToOne ==
    /\ (pc = "solar_done" /\ args.Cl1 <= args.Cl2 /\ args.R <= 100) => result[2] <= result[1]
    /\ (pc = "solar_done" /\ args.Cl1 <= args.Cl2 /\ args.R > 100) => result[2] >= result[1]

\* a sunny hour, the default albedo, clear sky against overcast:
\* 450 * 0.85 * 1 = 382.5 and 450 * 0.85 * 0.35 = 133.875 W/m2
C13_Witness ==
    /\ pc = "solar_done"
    /\ args = [q0_a_t |-> 450, R |-> 15, Cl1 |-> 0, Cl2 |-> 100]
    /\ result = <<382500, 133875>>

\* C14 (as claimed): calc_upwelling_LW is strictly increasing on its whole,
\* unrestricted input domain: T1 < T2 gives q_b(T1) < q_b(T2).
C14_UpwellingStrictlyIncreasing ==
    (pc = "upwelling_done" /\ args.T1 < args.T2) => result[1] < result[2]

\* C14 (amended): strictly increasing from absolute zero upwards; below
\* absolute zero the fourth power of the (negative) Kelvin temperature makes
\* it strictly decreasing.
C14_UpwellingStrictlyIncreasingAboveAbsoluteZero ==
    /\ (pc = "upwelling_done" /\ args.T1 < args.T2 /\ args.T1 >= -245835) =>
          result[1] < result[2]
    /\ (pc = "upwelling_done" /\ args.T1 < args.T2 /\ args.T2 <= -245835) =>
          result[1] > result[2]

\* water at 0 degC against water at 0.1 degC: 306.1 and 306.6 W/m2
C14_Witness ==
    /\ pc = "upwelling_done"
    /\ args = [T1 |-> 0, T2 |-> 90]
    /\ result = <<306149, 306609>>

\* C15: for every net flux q_net and every depth D > 0 the cooling rate
\* satisfies rate * (1000 * 4182 * D) = 60 * q_net (q_net in W/m2, here in
\* mW/m2: rate * (50 * 1000 * 4182 * D) = 3 * q_net), so it has the sign of
\* q_net and is zero exactly when q_net is zero; a missing net flux gives a
\* missing rate, an infinite one an infinite rate of the same sign.
C15_CoolingRateEquation ==
    (pc = "cooled" /\ D > 0) =>
        \A t \in DOMAIN flux.q_net :
            LET q == flux.q_net[t]
                r == cooling_rate[t]
                X == 50 * 1000 * 4182 * D
            IN  /\ IsNum(q) =>
                      /\ r.k = "num"
                      /\ r.d > 0
                      /\ X % r.d = 0
                      /\ r.n * (X \div r.d) = 3 * q.v
                      /\ (r.n < 0) = (q.v < 0)
                      /\ (r.n > 0) = (q.v > 0)
                      /\ (r.n = 0) = (q.v = 0)
                /\ IsNaN(q) => r.k = "nan"
                /\ IsInf(q) => (r.k = "inf" /\ r.n = q.v)

\* a net loss of 0.7 W/m2 over 2 m of water: -7 / 1394000 degC per minute
C15_Witness ==
    /\ pc = "cooled"
    /\ D = 2
    /\ \E t \in DOMAIN flux.q_net :
          /\ flux.q_net[t] = Num(-700)
          /\ cooling_rate[t] = [k |-> "num", n |-> -7, d |-> 1394000]

-----------------------------------------------------------------------------
(* Forecast assembly: the fetches *)

RECURSIVE TimestampsInOrder(_)
\* the timestamps of the rows of a list of windows, window after window
TimestampsInOrder(ws) ==
    IF ws = <<>> THEN <<>>
    ELSE [i \in 1..Len(Head(ws)) |-> Head(ws)[i].ts] \o TimestampsInOrder(Tail(ws))

RECURSIVE FirstOccurrences(_)
\* a sequence without the repetitions of earlier elements
FirstOccurrences(xs) ==
    IF xs = <<>> THEN <<>>
    ELSE LET front == FirstOccurrences(SubSeq(xs, 1, Len(xs) - 1))
             x == xs[Len(xs)]
         IN  IF \E i \in 1..Len(front) : front[i] = x THEN front ELSE Append(front, x)

\* C16: forecast assembly issues exactly one window fetch per lead-time
\* offset, for the offsets 0, 48, 96, 107 in that order and for the resolved
\* coordinates, and the assembled rows are those of the windows in that list
\* order with later repetitions of a timestamp dropped: the result depends
\* on the list order of the windows only.
C16_OneFetchPerOffsetInListOrder ==
    /\ \A i \in 1..Len(fetchLog) :
          fetchLog[i] = <<lat, lon, <<0, 48, 96, 107>>[i]>>
    /\ Len(fetchLog) <= 4
    /\ Len(fetchLog) = Len(windows)
    /\ pc = "returned" =>
          /\ Len(fetchLog) = 4
          /\ [i \in 1..Len(df_hf) |-> df_hf[i].ts] = FirstOccurrences(TimestampsInOrder(windows))

\* four windows fetched, the second starting before the first and
\* overlapping it: the order of the result is the order of the list
C16_Witness ==
    /\ pc = "returned"
    /\ Len(windows) = 4
    /\ TimestampsInOrder(windows) = <<1, 2, 0, 1, 1, 0>>
    /\ [i \in 1..Len(df_hf) |-> df_hf[i].ts] = <<1, 2, 0>>

-----------------------------------------------------------------------------
(* The offset of a window *)

\* C17: within one forecast window every row's timestamp carries the same
\* fixed UTC offset, the one resolved from the timezone abbreviation of the
\* window's page, also when the window spans a DST transition.
C17_OneOffsetPerWindow ==
    \A w \in 1..Len(windows) : \A i \in 1..Len(windows[w]) :
        /\ server.tz \in DOMAIN tz_map
        /\ windows[w][i].tz = tz_map[server.tz]
        /\ utcoffset(windows[w][i].tz) = utcoffset(windows[w][1].tz)

\* a window of an EST page with rows on both sides of the spring transition
C17_Witness ==
    /\ pc = "returned"
    /\ server.tz = "EST"
    /\ \E w \in 1..Len(windows) :
          /\ \E i \in 1..Len(windows[w]) : windows[w][i].ts < SpringForward
          /\ \E i \in 1..Len(windows[w]) :
                windows[w][i].ts > SpringForward /\ utcoffset(windows[w][i].tz) = -5

-----------------------------------------------------------------------------
(* Whole degrees Fahrenheit *)

\* the largest whole number of degrees not above a value in tenths
RoundedDown(x) == (x.v - (x.v % 10)) \div 10

\* the whole number of degrees left when the fraction of the value is dropped
FractionDropped(x) == RoundedDown(x) + (IF x.v < 0 /\ x.v % 10 # 0 THEN 1 ELSE 0)

\* the longwave, sensible and latent fluxes returned at every timestamp are
\* those of the Celsius conversions of Whole(temperature) and Whole(dewpoint)
FluxesUseWholeDegrees(Whole(_)) ==
    \A t \in DOMAIN flux.q_atm :
        LET row == df_hf[CHOOSE i \in 1..Len(df_hf) : df_hf[i].ts = t].cells
            T_air_C == (Whole(row["Temperature"]) - 32) * 500
            T_dewpoint_C == (Whole(row["Dewpoint"]) - 32) * 500
            Cl == astype_int(row["SkyCover"])
            f_U == calc_wind_function(1, 1, 1, 1, astype_int(row["SurfaceWind"]) * 44704)
        IN  /\ flux.q_atm[t] = Num(calc_downwelling_LW(T_air_C, Cl))
            /\ flux.q_h[t] = Num(calc_sensible_heat(T_air_C, f_U, 9 * T_water_C))
            /\ flux.q_l[t] = Num(calc_latent_heat(1000, 9 * T_water_C,
                                                  calc_vapor_pressure(T_dewpoint_C), f_U))

\* C18 as stated: calc_fluxes truncates air temperature and dewpoint to a
\* whole degree Fahrenheit, rounding down, before C = (F - 32) * 5/9, and
\* the longwave, sensible and vapor-pressure formulas use the conversion of
\* that whole degree, for every numeric input including negative and
\* fractional ones.
C18_WholeDegreesRoundedDown == FluxesUseWholeDegrees(RoundedDown)

\* C18, amended: the truncation is toward zero (the fraction is dropped), so
\* a negative fractional reading goes to the whole degree above it.
C18_WholeDegreesTowardZero == FluxesUseWholeDegrees(FractionDropped)

\* fluxes returned for an hour at -3.5 F with a dewpoint of -10.5 F and for
\* an hour at 41 F
C18_Witness ==
    /\ pc = "fluxes"
    /\ \E i \in 1..Len(df_hf) :
          /\ df_hf[i].cells["Temperature"] = Num(-35)
          /\ df_hf[i].cells["Dewpoint"] = Num(-105)
          /\ flux.q_h[df_hf[i].ts] =
                Num(calc_sensible_heat(-17500, 100000, 9 * T_water_C))
    /\ \E i \in 1..Len(df_hf) : df_hf[i].cells["Temperature"] = Num(410)

-----------------------------------------------------------------------------
(* The station water temperature *)

\* the ids of Little Rapids, S.W. Pier, De Tour Village and Mackinaw City
PriorityIds == <<"9076033", "9076070", "9075099", "9075080">>
PriorityNames ==
    <<"Little Rapids, MI", "S.W. Pier, MI", "De Tour Village, MI", "Mackinaw City, MI">>

\* the places in the priority order whose station answers with readings
Succeeding == {i \in 1..4 : args[PriorityIds[i]].kind = "data"}

\* C19: get_station_water_temp_for_hff queries the stations in the order
\* Little Rapids, S.W. Pier, De Tour Village, Mackinaw City, returns the
\* Celsius temperature and the name of the first station whose fetch
\* succeeds without querying any station after it, and returns
\* (2.0, "Default") exactly when no station succeeds.
C19_FirstSuccessInPriorityOrder ==
    /\ Len(result.queried) <= 4
    /\ \A i \in 1..Len(result.queried) :
          /\ result.queried[i] = PriorityIds[i]
          /\ \A j \in 1..(i - 1) : j \notin Succeeding
    /\ pc = "wt_done" =>
          /\ Succeeding # {} =>
                LET first == CHOOSE i \in Succeeding : \A j \in Succeeding : i <= j
                IN  /\ Len(result.queried) = first
                    /\ result.ret[1] * 9 = (args[PriorityIds[first]].v - 320) * 5 * 90
                    /\ result.ret[2] = PriorityNames[first]
          /\ Succeeding = {} => Len(result.queried) = 4
          /\ (result.ret = <<1800, "Default">>) <=> (Succeeding = {})

\* Little Rapids fails, S.W. Pier has no readings, De Tour Village reports
\* 35.6 F, Mackinaw City has readings too and is not asked
C19_Witness ==
    /\ pc = "wt_done"
    /\ result.queried = <<"9076033", "9076070", "9075099">>
    /\ result.ret = <<1800, "De Tour Village, MI">>
    /\ args["9076033"].kind = "failure"
    /\ args["9076070"].kind = "empty"
    /\ args["9075080"].kind = "data"

-----------------------------------------------------------------------------
(* The sign of the sensible heat flux *)

\* C20: for every wind function value f_U > 0 the sensible heat flux is
\* positive exactly when the air is warmer than the water, negative exactly
\* when it is colder, and zero when the two temperatures are equal.
C20_SensibleHeatSign ==
    (pc = "sensible_done" /\ args.f_U > 0) =>
        /\ (result[1] > 0) <=> (args.T_air > args.T_water)
        /\ (result[1] < 0) <=> (args.T_air < args.T_water)
        /\ (result[1] = 0) <=> (args.T_air = args.T_water)

\* air at -10 degC over water at 2 degC in still air: a loss of about 12 W/m2
C20_Witness ==
    /\ pc = "sensible_done"
    /\ args = [T_air |-> -9000, f_U |-> 100000, T_water |-> 1800]
    /\ result[1] = calc_sensible_heat(-9000, 100000, 1800)
    /\ result[1] < -12000

-----------------------------------------------------------------------------
(* The year of a row *)

\* the hour, in the local time of the site, of the first column of the page
\* last read: the page was requested within the last ticks of the clock
TrueFirstHour ==
    LET H == ((now + (60 * ServerOffset(server.tz))) \div 60) + aheadhours[Len(windows)]
    IN  CHOOSE h \in (H - 2)..H : h % 24 = page.rows[1].hour

\* C21: every row of a forecast window is given the calendar year in which
\* its forecast hour falls, including windows that span 31 December to
\* 1 January, whatever the moment the current year and the current month
\* are read relative to the fetch.
C21_RowsGetTheirOwnYear ==
    (pc = "gff_fetch" /\ Len(windows) >= 1) =>
        \A i \in 1..Len(windows[Len(windows)]) :
            Civil(windows[Len(windows)][i].ts \div 24).year
                = Civil((TrueFirstHour + (i - 1)) \div 24).year

-----------------------------------------------------------------------------
(* The timestamps of the flux series *)

\* C22: the flux series returned by calc_fluxes, and so the energy table
\* and the cooling-rate series, have exactly the timestamps of the forecast
\* passed in; where the forecast has an hourly gap no timestamp is invented
\* in q_sw or q_net.
C22_FluxesKeepTheForecastIndex ==
    /\ pc \in {"fluxes", "energy", "cooled"} =>
          /\ DOMAIN flux.q_sw = Index(df_hf)
          /\ DOMAIN flux.q_net = Index(df_hf)
          /\ DOMAIN flux.q_atm = Index(df_hf)
          /\ DOMAIN flux.q_l = Index(df_hf)
          /\ DOMAIN flux.q_h = Index(df_hf)
    /\ pc \in {"energy", "cooled"} => DOMAIN energy_df["net flux"] = Index(df_hf)
    /\ pc = "cooled" => DOMAIN cooling_rate = Index(df_hf)

-----------------------------------------------------------------------------
(* The compute request: a stale forecast *)

\* the instant now is more than an hour after the first timestamp of the
\* forecast, both taken as minutes of universal time
Stale ==
    now - ((60 * first_forecast_time) - (60 * utcoffset(tz_map[server.tz]))) > 60

\* the second request of get_full_forecast has been made
Refreshed == ret = "h_flux"

InRefresh == Refreshed /\ pc \in {"gff_call", "gff_fetch", "w_year", "w_month"}

FluxesComputed == pc \in {"h_energy", "h_met", "h_cooling"}

\* what holds while and after the forecast is refreshed, or is not
C23_Consequences ==
    /\ InRefresh => (flux = NoFlux /\ elevLog = <<>>)
    /\ (InRefresh /\ pc # "gff_call") => (~cache.hit /\ lat = ResolvedLat(ArgLat, ArgLon, LOCATION)
              /\ lon = ResolvedLon(ArgLat, ArgLon, LOCATION))
    /\ (FluxesComputed /\ Refreshed) =>
          /\ Len(windows) = 4
          /\ Len(fetchLog) >= 4
          /\ \A k \in 1..4 :
                fetchLog[Len(fetchLog) - 4 + k] = <<lat, lon, <<0, 48, 96, 107>>[k]>>
          /\ df_hf = assemble(windows)
    /\ (FluxesComputed /\ ~Refreshed) =>
          /\ Len(fetchLog) <= 4
          /\ df_hf[1].ts = first_forecast_time
          /\ cache.hit => df_hf = replace_inf(cache.df)
    /\ pc = "h_energy" =>
          flux.q_net = calc_fluxes(df_hf, T_water_C, ArgLat, ArgLon, LOCATION).q_net

\* the step that reads the clock
C23_Decision ==
    (pc = "h_clock" /\ pc' # "h_clock") =>
        IF Stale
        THEN /\ ~cache'.hit
             /\ pc' = "gff_call"
             /\ Refreshed'
             /\ flux' = NoFlux
             /\ hf' = hf
        ELSE /\ pc' = "h_flux"
             /\ ~Refreshed'
             /\ df_hf' = df_hf
             /\ fetchLog' = fetchLog
             /\ cache' = cache

\* C23: on a compute request, if the current time is more than one hour
\* after the first timestamp of the forecast obtained, the forecast cache is
\* cleared and the forecast is assembled again for the same location before
\* any flux is computed, and the fluxes are computed from the re-assembled
\* forecast; otherwise no second assembly happens and the first forecast is
\* used.
C23_StaleForecastIsRefreshed == []C23_Consequences /\ [][C23_Decision]_vars

\* a request answered from a cache an hour old: the forecast was assembled
\* again from four fresh pages and the fluxes come from it
C23_Witness ==
    /\ pc = "h_energy"
    /\ Refreshed
    /\ Len(fetchLog) = 4
    /\ df_hf = assemble(windows)
    /\ df_hf[1].ts = first_forecast_time + 1
    /\ DOMAIN flux.q_net # {}
====
